---- MODULE Spec2Model ----
(***************************************************************************)
(* Model of the const_table attribute macro (src/src/lib.rs) and of the    *)
(* code it generates.  One behaviour is one invocation of the macro on one *)
(* declaration, followed (when the expansion compiles) by calls of the     *)
(* generated try_from, iter and deref.                                     *)
(*                                                                         *)
(* Option<T> is modelled as a sequence of length 0 (None) or 1 (Some).     *)
(* An unsigned integer of w bits is modelled as its little-endian sequence *)
(* of w/8 bytes, so that `as` casts between widths truncate or extend as   *)
(* they do in the compiled code.                                           *)
(***************************************************************************)
EXTENDS Integers, Sequences, FiniteSets, TLC

\* Bound: number of attributes plus number of data variants of a declaration.
MaxItems == 3

None == <<>>
Some(x) == <<x>>

----------------------------------------------------------------------------
\* Diagnostics (message texts of lib.rs)

NotEnumMsg == "the const_table attribute may only be applied to enums"
GenericMsg == "a const_table enum cannot be generic"
ReprMsg == "unsupported repr hint for a const_table enum: expected one of u8, u16, u32 or u64 (default is u32)"
FieldsMsg == "in a const_table enum, only the first variant should have fields"
NoDiscriminantMsg == "in a const_table enum, all but the first variant should have a discriminant expression"
NeedsVariantMsg == "a const_table enum needs at least one variant with a discriminant expression"
FirstNamedMsg == "the first variant of a const_table enum should have named fields to specify the table layout"
NeedsLayoutMsg == "a const_table enum needs at least one variant with named fields to specify the table layout"

ConflictMsg(ident) == "the " \o ident \o " trait is already implemented by the const_table macro"

\* syn::Path::is_ident: a path of exactly one segment equal to s
is_ident(p, s) == Len(p) = 1 /\ p[1] = s

ReservedTraits == {"Copy", "Clone", "Debug", "Hash", "PartialEq", "Eq"}

IsReservedPath(p) == \E t \in ReservedTraits : is_ident(p, t)

GeneratedDerives == << <<"core", "marker", "Copy">>, <<"core", "clone", "Clone">>,
                       <<"core", "fmt", "Debug">>, <<"core", "hash", "Hash">>,
                       <<"core", "cmp", "PartialEq">>, <<"core", "cmp", "Eq">> >>

\* Variant of SupportedRepr that also accepts the signed 32-bit hint
SupportedReprSigned(ident) ==
    ~(ident # "u8" /\ ident # "u16" /\ ident # "u32" /\ ident # "u64" /\ ident # "i32")

\* lib.rs 168: the repr identifiers that are accepted
SupportedRepr(ident) == ~(ident # "u8" /\ ident # "u16" /\ ident # "u32" /\ ident # "u64")

DefaultRepr == "u32"

----------------------------------------------------------------------------
\* The declarations the macro is applied to

\* arguments of a derive attribute: paths, as sequences of segments
DeriveLists == { << <<"Debug">> >>,
                 << <<"Debug">>, <<"Debug">> >>,
                 << <<"PartialOrd">>, <<"Clone">> >>,
                 << <<"PartialOrd">> >>,
                 << <<"fmt", "Debug">> >> }

\* attr.path, the nested metas of parse_meta(), and the result of
\* parse_args::<Ident>() (None when the arguments are not one identifier)
DeriveAttrs == { [path |-> "derive", nested |-> l, ident |-> None] : l \in DeriveLists }
ReprAttrs == { [path |-> "repr", nested |-> <<>>, ident |-> i] :
                  i \in {Some("u8"), Some("u16"), Some("u32"), Some("u64"), Some("i32"), None} }
OtherAttrs == { [path |-> "doc", nested |-> <<>>, ident |-> None] }
AttrPool == DeriveAttrs \cup ReprAttrs \cup OtherAttrs

SeqsOfLen(S, n) == [1..n -> S]

LayoutIdent == "Info"
VariantIdents == <<"Dog", "Cat", "Human", "Ant", "Bee", "Emu">>
Exprs == {"e1", "e2"}

FirstVariants == { [ident |-> LayoutIdent, fields |-> f, discriminant |-> None] :
                      f \in {"Named", "Unnamed", "Unit"} }
DataVariantsAt(k) == { [ident |-> VariantIdents[k], fields |-> f, discriminant |-> d] :
                          f \in {"Unit", "Named"}, d \in {None} \cup {Some(e) : e \in Exprs} }
RECURSIVE DataListsOfLen(_)
DataListsOfLen(m) == IF m = 0 THEN {<<>>}
                     ELSE { Append(s, v) : s \in DataListsOfLen(m - 1), v \in DataVariantsAt(m) }
DataLists(n) == UNION { DataListsOfLen(m) : m \in 0..n }
VariantLists(n) == {<<>>} \cup { <<f>> \o d : f \in FirstVariants, d \in DataLists(n) }

NotAnEnum == [kind |-> "struct", generic |-> FALSE, attrs |-> <<>>, variants |-> <<>>]
Enum(g, a, v) == [kind |-> "enum", generic |-> g, attrs |-> a, variants |-> v]

----------------------------------------------------------------------------
VARIABLES
    input_item,    \* the item the attribute is placed on
    pc,            \* position of the pass / of the program using the expansion
    errors,        \* the accumulated diagnostics
    ai,            \* index of the next attribute of the attribute loop
    attrs,         \* attributes kept for the emitted enum
    repr,          \* Option: last supported repr identifier seen
    vi,            \* index of the next variant of the variant map
    variants,      \* rebuilt variants
    value_exprs,   \* table rows
    out_errors,    \* diagnostics in the returned token stream
    artifact,      \* Option: the emitted enum, struct and impls
    usize_bytes,   \* size of usize on the target the expansion is compiled for
    result         \* what the last call of a generated function returned

vars == <<input_item, pc, errors, ai, attrs, repr, vi, variants, value_exprs,
          out_errors, artifact, usize_bytes, result>>

NoResult == [op |-> "none", raw |-> <<>>, self |-> None, ok |-> None, err |-> None,
             fwd |-> <<>>, back |-> <<>>, row |-> None]

Init ==
    /\ \/ input_item = NotAnEnum
       \/ \E na \in 0..MaxItems :
          \E g \in BOOLEAN, a \in SeqsOfLen(AttrPool, na), v \in VariantLists(MaxItems - na) :
              input_item = Enum(g, a, v)
    /\ pc = "parse"
    /\ errors = <<>>
    /\ ai = 1
    /\ attrs = <<>>
    /\ repr = None
    /\ vi = 2
    /\ variants = <<>>
    /\ value_exprs = <<>>
    /\ out_errors = <<>>
    /\ artifact = None
    /\ usize_bytes = 0
    /\ result = NoResult

AfterAttrs(i) == IF i <= Len(input_item.attrs) THEN "attrs"
                 ELSE IF vi <= Len(input_item.variants) THEN "variants" ELSE "emit"
AfterVariants(i) == IF i <= Len(input_item.variants) THEN "variants" ELSE "emit"

\* lib.rs 121-136: the item kind and the generics check
ParseItem ==
    /\ pc = "parse"
    /\ IF input_item.kind # "enum"
       THEN /\ out_errors' = <<NotEnumMsg>>
            /\ pc' = "done"
            /\ UNCHANGED errors
       ELSE /\ errors' = IF input_item.generic THEN Append(errors, GenericMsg) ELSE errors
            /\ pc' = AfterAttrs(ai)
            /\ UNCHANGED out_errors
    /\ UNCHANGED <<input_item, ai, attrs, repr, vi, variants, value_exprs, artifact,
                   usize_bytes, result>>

\* Variant of DeriveConflicts that stops at the first conflict of a derive list
RECURSIVE DeriveConflictsFirst(_)
DeriveConflictsFirst(nested) ==
    IF nested = <<>> THEN <<>>
    ELSE IF IsReservedPath(Head(nested)) THEN <<ConflictMsg(Head(nested)[1])>>
    ELSE DeriveConflictsFirst(Tail(nested))

\* lib.rs 146-158: the diagnostics of one derive list, one per nested path that
\* names a reserved trait, in the order of the list
RECURSIVE DeriveConflicts(_)
DeriveConflicts(nested) ==
    IF nested = <<>> THEN <<>>
    ELSE (IF IsReservedPath(Head(nested)) THEN <<ConflictMsg(Head(nested)[1])>> ELSE <<>>)
         \o DeriveConflicts(Tail(nested))

\* Variant of conflict_found that never skips the attribute
conflict_found_never(attr) == FALSE

\* lib.rs 144, 155, 161: conflict_found
conflict_found(attr) == attr.path = "derive" /\ DeriveConflicts(attr.nested) # <<>>

\* lib.rs 181: the repr type of the expansion
ReprType(r) == IF r = None THEN DefaultRepr ELSE r[1]

\* lib.rs 142-179: one iteration of the loop over the attributes of the enum
AttrStep ==
    /\ pc = "attrs"
    /\ ai <= Len(input_item.attrs)
    /\ LET attr == input_item.attrs[ai] IN
       IF conflict_found(attr)
       THEN \* 153-155, 161-163: report every conflict, drop the attribute
            /\ errors' = errors \o DeriveConflicts(attr.nested)
            /\ ai' = ai + 1
            /\ pc' = AfterAttrs(ai + 1)
            /\ UNCHANGED <<attrs, repr>>
       ELSE IF attr.path = "repr"
       THEN IF attr.ident = None
            THEN \* 167: parse_args().unwrap() panics, nothing is returned
                 /\ pc' = "panicked"
                 /\ UNCHANGED <<errors, ai, attrs, repr>>
            ELSE IF ~SupportedRepr(attr.ident[1])
            THEN \* 168-173
                 /\ errors' = Append(errors, ReprMsg)
                 /\ ai' = ai + 1
                 /\ pc' = AfterAttrs(ai + 1)
                 /\ UNCHANGED <<attrs, repr>>
            ELSE \* 175
                 /\ repr' = attr.ident
                 /\ ai' = ai + 1
                 /\ pc' = AfterAttrs(ai + 1)
                 /\ UNCHANGED <<errors, attrs>>
       ELSE \* 177
            /\ attrs' = Append(attrs, attr)
            /\ ai' = ai + 1
            /\ pc' = AfterAttrs(ai + 1)
            /\ UNCHANGED <<errors, repr>>
    /\ UNCHANGED <<input_item, vi, variants, value_exprs, out_errors, artifact,
                   usize_bytes, result>>

\* lib.rs 207-209: the empty tuple standing in for a missing discriminant
EmptyTupleExpr == "()"

\* lib.rs 187-213: the closure mapped over the variants after the first;
\* "Named" stands for a non-empty list of named fields
MapVariant(variant) ==
    [ errs |-> (IF variant.fields # "Unit" THEN <<FieldsMsg>> ELSE <<>>)
               \o (IF variant.discriminant # None THEN <<>> ELSE <<NoDiscriminantMsg>>),
      v |-> IF variant.discriminant # None
            THEN [variant EXCEPT !.discriminant = None, !.fields = "Unit"]
            ELSE variant,
      expr |-> IF variant.discriminant # None THEN variant.discriminant[1]
               ELSE EmptyTupleExpr ]

\* lib.rs 187-213: one element of the map/unzip over input_variants
VariantStep ==
    /\ pc = "variants"
    /\ vi <= Len(input_item.variants)
    /\ LET m == MapVariant(input_item.variants[vi]) IN
       /\ errors' = errors \o m.errs
       /\ variants' = Append(variants, m.v)
       /\ value_exprs' = Append(value_exprs, m.expr)
    /\ vi' = vi + 1
    /\ pc' = AfterVariants(vi + 1)
    /\ UNCHANGED <<input_item, ai, attrs, repr, out_errors, artifact, usize_bytes, result>>

\* Variant of table_size that counts the layout variant as well
table_size_all(vs) == Len(vs) + 1

\* lib.rs 250: table_size
table_size(vs) == Len(vs)

\* Variant of HasNamedFields that accepts tuple fields as a layout
HasAnyFields(v) == v.fields # "Unit"

\* lib.rs 224: the first variant has named fields
HasNamedFields(v) == v.fields = "Named"

\* lib.rs 258-296: the expansion
Expansion(first_variant) ==
    [ repr |-> ReprType(repr),
      derive |-> GeneratedDerives,
      enum_decl |-> [attrs |-> attrs, variants |-> variants,
                     generic |-> input_item.generic],
      struct_decl |-> [ident |-> first_variant.ident, fields |-> first_variant.fields],
      COUNT |-> table_size(variants),
      iter_cast |-> ReprType(repr),
      TABLE_len |-> table_size(variants),
      TABLE |-> value_exprs,
      try_from_param |-> ReprType(repr),
      try_from_error |-> ReprType(repr) ]

\* lib.rs 215-297: the fatal checks and the emission
Emit ==
    /\ pc = "emit"
    /\ IF variants = <<>>
       THEN \* 215-220
            /\ errors' = Append(errors, NeedsVariantMsg)
            /\ out_errors' = errors'
            /\ UNCHANGED artifact
       ELSE IF Len(input_item.variants) >= 1
       THEN IF HasNamedFields(input_item.variants[1])
            THEN \* 225-235, 250-297
                 /\ out_errors' = errors
                 /\ artifact' = Some(Expansion(input_item.variants[1]))
                 /\ UNCHANGED errors
            ELSE \* 237-240
                 /\ errors' = Append(errors, FirstNamedMsg)
                 /\ out_errors' = errors'
                 /\ UNCHANGED artifact
       ELSE \* 243-246
            /\ errors' = Append(errors, NeedsLayoutMsg)
            /\ out_errors' = errors'
            /\ UNCHANGED artifact
    /\ pc' = "done"
    /\ UNCHANGED <<input_item, ai, attrs, repr, vi, variants, value_exprs, usize_bytes,
                   result>>

----------------------------------------------------------------------------
\* The generated code, run by a program whose build accepted the expansion

\* bytes of the repr types accepted at lib.rs 168
ReprBytes(t) == CASE t = "u8" -> 1 [] t = "u16" -> 2 [] t = "u32" -> 4 [] t = "u64" -> 8

\* bytes of usize: target_pointer_width is 16, 32 or 64
UsizeSizes == {2, 4, 8}

\* the n-byte little-endian representation of the natural number x
RECURSIVE ToBytes(_, _)
ToBytes(x, n) == IF n = 0 THEN <<>> ELSE <<x % 256>> \o ToBytes(x \div 256, n - 1)

\* `b as T` between unsigned integer types, T of n bytes: truncates or zero-extends
Cast(b, n) == [k \in 1..n |-> IF k <= Len(b) THEN b[k] ELSE 0]

\* a < b for two unsigned integers of the same size
Less(a, b) == \E k \in 1..Len(a) : /\ a[k] < b[k]
                                   /\ \A j \in (k + 1)..Len(a) : a[j] = b[j]

\* a value of the enum type that is none of its variants
InvalidValue == "<invalid>"

\* core::mem::transmute from the repr type to the enum (lib.rs 271, 290): the
\* emitted variants carry no discriminant, so the k-th has discriminant k - 1;
\* any other bit pattern is undefined behaviour
transmute(i, vs) ==
    LET hits == { k \in 1..Len(vs) : ToBytes(k - 1, Len(i)) = i } IN
    IF hits # {} THEN { vs[k].ident : k \in hits }
    ELSE { vs[k].ident : k \in 1..Len(vs) } \cup {InvalidValue}

\* a forwarded derive of a trait the expansion derives itself is rejected by the build
DerivesTwice(a) == a.path = "derive" /\ \E k \in 1..Len(a.nested) :
                       a.nested[k][Len(a.nested[k])] \in ReservedTraits

\* the build of the expansion (lib.rs 258-297) for one target
Compile ==
    /\ pc = "done"
    /\ artifact # None
    /\ out_errors = <<>>
    /\ \A k \in 1..Len(artifact[1].enum_decl.attrs) :
           ~DerivesTwice(artifact[1].enum_decl.attrs[k])
    /\ pc' = "compiled"
    /\ usize_bytes' \in UsizeSizes
    /\ UNCHANGED <<input_item, errors, ai, attrs, repr, vi, variants, value_exprs,
                   out_errors, artifact, result>>

\* arguments tried for try_from: a small low byte and at most one higher byte set
RawInputs(n) == { [k \in 1..n |-> IF k = 1 THEN lo ELSE IF k = h THEN 1 ELSE 0] :
                     lo \in 0..(MaxItems + 1), h \in 1..n }

\* lib.rs 286-294: the possible results of try_from(i)
try_from(i, art, usz) ==
    IF Less(Cast(i, usz), ToBytes(art.COUNT, usz))
    THEN { [ok |-> Some(c), err |-> None] : c \in transmute(i, art.enum_decl.variants) }
    ELSE { [ok |-> None, err |-> Some(i)] }

TryFrom ==
    /\ pc = "compiled"
    /\ result = NoResult
    /\ \E i \in RawInputs(ReprBytes(artifact[1].try_from_param)) :
       \E r \in try_from(i, artifact[1], usize_bytes) :
           result' = [NoResult EXCEPT !.op = "try_from", !.raw = i,
                                      !.ok = r.ok, !.err = r.err]
    /\ UNCHANGED <<input_item, pc, errors, ai, attrs, repr, vi, variants, value_exprs,
                   out_errors, artifact, usize_bytes>>

\* Variant of IterRange that runs over 1..=count
IterRangeFromOne(count) == [k \in 1..count |-> k]

\* lib.rs 271: the range 0..Self::COUNT
IterRange(count) == [k \in 1..count |-> k - 1]

\* lib.rs 271: the possible items for index n of the range
iter_map(n, art, usz) ==
    transmute(Cast(ToBytes(n, usz), ReprBytes(art.iter_cast)), art.enum_decl.variants)

\* the sequences whose k-th element is drawn from the k-th set of sets
RECURSIVE Choices(_)
Choices(sets) ==
    IF sets = <<>> THEN {<<>>}
    ELSE { <<x>> \o r : x \in Head(sets), r \in Choices(Tail(sets)) }

\* lib.rs 269-272: iter(), collected from the front and collected from the back
Iter ==
    /\ pc = "compiled"
    /\ result = NoResult
    /\ LET art == artifact[1]
           range == IterRange(art.COUNT)
           n == Len(range)
       IN \E f \in Choices([k \in 1..n |-> iter_map(range[k], art, usize_bytes)]),
             b \in Choices([k \in 1..n |-> iter_map(range[n + 1 - k], art, usize_bytes)]) :
           result' = [NoResult EXCEPT !.op = "iter", !.fwd = f, !.back = b]
    /\ UNCHANGED <<input_item, pc, errors, ai, attrs, repr, vi, variants, value_exprs,
                   out_errors, artifact, usize_bytes>>

\* Variant of deref that indexes the table from its end
deref_reversed(d, art) == art.TABLE[Len(art.TABLE) - d]

\* lib.rs 277-281: deref of the variant with discriminant d
deref(d, art) == art.TABLE[d + 1]

Deref ==
    /\ pc = "compiled"
    /\ result = NoResult
    /\ \E k \in 1..Len(artifact[1].enum_decl.variants) :
           result' = [NoResult EXCEPT !.op = "deref",
                                      !.self = Some(artifact[1].enum_decl.variants[k].ident),
                                      !.row = Some(deref(k - 1, artifact[1]))]
    /\ UNCHANGED <<input_item, pc, errors, ai, attrs, repr, vi, variants, value_exprs,
                   out_errors, artifact, usize_bytes>>

\* the caller is done with the value returned to it and goes on to its next call
\* (tests/correct-usage.rs 35-46)
Consume ==
    /\ pc = "compiled"
    /\ result # NoResult
    /\ result' = NoResult
    /\ UNCHANGED <<input_item, pc, errors, ai, attrs, repr, vi, variants, value_exprs,
                   out_errors, artifact, usize_bytes>>

Next == ParseItem \/ AttrStep \/ VariantStep \/ Emit \/ Compile \/ TryFrom \/ Iter \/ Deref
        \/ Consume

Spec == Init /\ [][Next]_vars

----------------------------------------------------------------------------
\* Vocabulary of the properties

IsEnum == input_item.kind = "enum"
Exited == pc \in {"done", "compiled"}
Emitted == Exited /\ artifact # None
Art == artifact[1]

NumDataCases == IF input_item.variants = <<>> THEN 0 ELSE Len(input_item.variants) - 1
DataCase(k) == input_item.variants[k + 1]
StructureOk == Len(input_item.variants) >= 2 /\ input_item.variants[1].fields = "Named"

Count(s, m) == Cardinality({ k \in 1..Len(s) : s[k] = m })
Reverse(s) == [k \in 1..Len(s) |-> s[Len(s) + 1 - k]]
ProcessedAttrs == SubSeq(input_item.attrs, 1, ai - 1)

Widths == {"u8", "u16", "u32", "u64"}
IsWidthHint(a) == a.path = "repr" /\ a.ident # None
UnsupportedHints(as) == { k \in 1..Len(as) : IsWidthHint(as[k]) /\ as[k].ident[1] \notin Widths }
IsSupportedHint(a) == IsWidthHint(a) /\ a.ident[1] \in Widths
SelectedWidth(as) == LET hints == SelectSeq(as, IsSupportedHint) IN
                     IF hints = <<>> THEN "u32" ELSE hints[Len(hints)].ident[1]

\* the reserved traits written as bare identifiers in a derive list, with repetitions
RECURSIVE BareReservedIn(_)
BareReservedIn(l) ==
    IF l = <<>> THEN <<>>
    ELSE (IF Len(Head(l)) = 1 /\ Head(l)[1] \in ReservedTraits THEN <<Head(l)[1]>> ELSE <<>>)
         \o BareReservedIn(Tail(l))
RECURSIVE ReservedRequests(_)
ReservedRequests(as) ==
    IF as = <<>> THEN <<>>
    ELSE (IF Head(as).path = "derive" THEN BareReservedIn(Head(as).nested) ELSE <<>>)
         \o ReservedRequests(Tail(as))
ConflictMsgs(names) == [k \in 1..Len(names) |-> ConflictMsg(names[k])]
IsConflictMsg(m) == \E t \in ReservedTraits : m = ConflictMsg(t)
ConflictDiagnostics(es) == SelectSeq(es, IsConflictMsg)

\* the single requests of a list of attributes: one per derived path, one per other attribute
RECURSIVE DeriveRequests(_)
DeriveRequests(l) == IF l = <<>> THEN <<>>
                     ELSE << <<"derive">> \o Head(l) >> \o DeriveRequests(Tail(l))
RECURSIVE NonReservedRequests(_)
NonReservedRequests(l) ==
    IF l = <<>> THEN <<>>
    ELSE (IF Len(Head(l)) = 1 /\ Head(l)[1] \in ReservedTraits THEN <<>>
          ELSE << <<"derive">> \o Head(l) >>) \o NonReservedRequests(Tail(l))
RECURSIVE Requests(_)
Requests(as) ==
    IF as = <<>> THEN <<>>
    ELSE (IF Head(as).path = "derive" THEN DeriveRequests(Head(as).nested)
          ELSE << <<Head(as).path>> >>) \o Requests(Tail(as))
RECURSIVE RequestsButConflicts(_)
RequestsButConflicts(as) ==
    IF as = <<>> THEN <<>>
    ELSE (IF Head(as).path = "derive" THEN NonReservedRequests(Head(as).nested)
          ELSE IF Head(as).path = "repr" THEN <<>>
          ELSE << <<Head(as).path>> >>) \o RequestsButConflicts(Tail(as))
IsForwarded(a) == a.path # "repr" /\ (a.path = "derive" => BareReservedIn(a.nested) = <<>>)
IsMixedDerive(a) == /\ a.path = "derive"
                    /\ BareReservedIn(a.nested) # <<>>
                    /\ Len(BareReservedIn(a.nested)) < Len(a.nested)

----------------------------------------------------------------------------
\* C1: try_from(i) returns Ok(the case whose ordinal is i) for every raw value
\* i below the number N of data cases and Err(i), with the same raw value, for
\* every i >= N, whatever the width.
C1_TryFromBijection ==
    result.op = "try_from" =>
        LET i == result.raw
            inRange == \E k \in 0..(NumDataCases - 1) : i = ToBytes(k, Len(i))
        IN /\ inRange => \E k \in 0..(NumDataCases - 1) :
                             /\ i = ToBytes(k, Len(i))
                             /\ result.ok = Some(DataCase(k + 1).ident)
                             /\ result.err = None
           /\ ~inRange => result.err = Some(i) /\ result.ok = None

\* C2: iter() yields exactly the N data cases, each once, in declaration order;
\* from the back it yields the reverse; and the forward sequence is what
\* try_from returns for 0, 1, ..., N-1.
C2_IterOrder ==
    result.op = "iter" =>
        /\ Len(result.fwd) = NumDataCases
        /\ \A k \in 1..NumDataCases : result.fwd[k] = DataCase(k).ident
        /\ \A j, k \in 1..NumDataCases : j # k => result.fwd[j] # result.fwd[k]
        /\ result.back = Reverse(result.fwd)
        /\ \A k \in 1..NumDataCases :
               try_from(ToBytes(k - 1, ReprBytes(Art.try_from_param)), Art, usize_bytes)
                   = { [ok |-> Some(result.fwd[k]), err |-> None] }

C2_Witness ==
    /\ result.op = "iter"
    /\ Len(result.fwd) >= 2
    /\ Art.repr # DefaultRepr

\* C3: the table holds the initializers in declaration order, row k being the
\* initializer of the case with ordinal k, and deref of a case returns the row
\* built from that case's own initializer.
C3_DerefRow ==
    /\ Emitted => /\ Len(Art.TABLE) = NumDataCases
                  /\ \A k \in 1..NumDataCases :
                         DataCase(k).discriminant # None
                             => Art.TABLE[k] = DataCase(k).discriminant[1]
    /\ result.op = "deref" =>
           \E k \in 1..NumDataCases : /\ DataCase(k).ident = result.self[1]
                                      /\ result.row = DataCase(k).discriminant

C3_Witness ==
    /\ result.op = "deref"
    /\ NumDataCases >= 2
    /\ result.self = Some(DataCase(2).ident)
    /\ DataCase(1).discriminant = Some("e2")
    /\ DataCase(2).discriminant = Some("e1")

\* C4: in every emitted artifact COUNT is the number of cases after the first
\* one of the declaration, whatever the width, and it is the number of cases
\* of the emitted enum and the length of the table, malformed data cases included.
C4_Count ==
    Emitted => /\ Art.COUNT = Len(input_item.variants) - 1
               /\ Art.COUNT = Len(Art.enum_decl.variants)
               /\ Art.COUNT = Art.TABLE_len
               /\ Art.COUNT = Len(Art.TABLE)

C4_Witness ==
    /\ Emitted
    /\ Art.COUNT >= 2
    /\ Art.repr # DefaultRepr
    /\ \E k \in 1..NumDataCases : DataCase(k).discriminant = None

C6_OnlyConflictingRequestsDropped ==
    Emitted => Requests(Art.enum_decl.attrs) = RequestsButConflicts(input_item.attrs)

\* C6 amended: the attributes forwarded to the emitted enum are, unchanged and
\* in their original order, the attributes of the declaration other than the
\* repr attributes and the derive attributes that name a reserved capability
\* as a bare identifier; such a derive attribute is dropped whole, with the
\* non-reserved requests of its list.
C6_ForwardedAttrs ==
    Emitted => Art.enum_decl.attrs = SelectSeq(input_item.attrs, IsForwarded)

C6_Witness ==
    /\ Emitted
    /\ Art.enum_decl.attrs # <<>>
    /\ \E k \in 1..Len(input_item.attrs) : IsMixedDerive(input_item.attrs[k])

C9_NoDiagnosticLost ==
    (IsEnum /\ pc \in {"done", "panicked", "compiled"}) => out_errors = errors

\* C10: every case of the rebuilt enum keeps the name of its data case and has
\* no fields and no initializer, also for a data case reported as carrying
\* fields or as missing its initializer.
C10_CasesStripped ==
    Emitted =>
        /\ Len(Art.enum_decl.variants) = NumDataCases
        /\ \A k \in 1..NumDataCases :
               /\ Art.enum_decl.variants[k].ident = DataCase(k).ident
               /\ Art.enum_decl.variants[k].fields = "Unit"
               /\ Art.enum_decl.variants[k].discriminant = None

====
